---- MODULE Spec2Model ----
(***************************************************************************)
(* Reminder scheduling and delivery of src/bot.py: the contact intake      *)
(* (handle_contact), the periodic poll job (check_reminders and            *)
(* send_reminder) and the response handler (button_callback), over the     *)
(* cells of the Google sheet.                                              *)
(*                                                                         *)
(* Time is in whole seconds.  A cell of the sheet is a string or a tuple;  *)
(* the empty cell (and Python's None, JSON's null) is the empty tuple or   *)
(* the empty string.  The sheet's header row is left out: the poller skips *)
(* it (line 211) and no handler writes to it.  The Cyrillic cell texts are *)
(* transliterated (TLA+ strings are ASCII).                                *)
(***************************************************************************)
EXTENDS Integers, Sequences, FiniteSets, TLC

(* ----------------------------- bounds ---------------------------------- *)

\* The cadence specification follows the clock from this many seconds
\* before the appointment to this many after it.
CadenceSpan == 150

\* Data rows of the sheet.
NumRows == 2

\* sentCount saturates here.
MaxSends == 2

\* The events of a run: ticks of the poll job, contact messages and button
\* presses.
MaxTicks == 2
MaxContacts == 2
MaxResponses == 2

(* ------------------------ program constants ---------------------------- *)

COLUMN_DAY_BEFORE == 9
COLUMN_HOUR_BEFORE == 10
COLUMN_TODAY == 11

\* "if time_diff <= 120" (line 245)
WindowSeconds == 120

\* timedelta(days=1), timedelta(hours=1) (lines 148, 149)
DaySeconds == 86400
HourSeconds == 3600
MinuteSeconds == 60

\* The job runs once a minute.
Interval_Minute == MinuteSeconds

\* job_queue.run_repeating(check_reminders, interval=15, first=0) (line 384)
Interval == 15

Rows == 1..NumRows

\* for reminder_type in ['day_before', 'hour_before', 'today'] (line 224)
ReminderTypes == <<"day_before", "hour_before", "today">>

Kinds == {ReminderTypes[i] : i \in 1..Len(ReminderTypes)}

OutcomeColumns == {COLUMN_DAY_BEFORE, COLUMN_HOUR_BEFORE, COLUMN_TODAY}

\* Python's None, JSON's null, an empty cell holding a tuple.
None == <<>>

\* Cell texts: "Отправлено", "Да", "Нет" and the empty cell.
Otpravleno == "Otpravleno"
Da == "Da"
Net == "Net"
Unset == ""

\* The chats that talk to the bot (str(chat_id)).
Chats == {"101", "102"}

\* The phone column of the sheet, as typed by HR, one per row.
RowDigit(r) == <<"1", "2", "3", "4", "5">>[r]

PhoneCol == [r \in Rows |-> <<"+", RowDigit(r), "-", "0">>]

\* Phone numbers a contact message can carry: each row's (as Telegram gives
\* it, digits only) and one that is in no row.
ContactPhones == {<<RowDigit(r), "0">> : r \in Rows} \cup {<<"0", "0">>}

(* --------------------------- pure helpers ------------------------------ *)

\* normalize_phone: re.sub(r'\D', '', phone)
IsDigit(c) == c \in {"0", "1", "2", "3", "4", "5", "6", "7", "8", "9"}

normalize_phone(phone) == SelectSeq(phone, IsDigit)

\* strftime("%Y-%m-%d %H:%M:%S"): the text of a time, as <<day, h, m, s>>.
strftime(t) ==
    << t \div DaySeconds,
       (t % DaySeconds) \div HourSeconds,
       (t % HourSeconds) \div MinuteSeconds,
       t % MinuteSeconds >>

\* datetime.strptime(text, "%Y-%m-%d %H:%M:%S") followed by TZ.localize.
strptime(text) ==
    text[1] * DaySeconds + text[2] * HourSeconds + text[3] * MinuteSeconds + text[4]

\* Does "<date> <time>" parse with the format with seconds / without seconds?
ValidDate(date_str) == Len(date_str) = 1 /\ date_str[1] \in Nat

ParsesHMS(date_str, time_str) ==
    /\ ValidDate(date_str)
    /\ Len(time_str) = 3
    /\ time_str[1] \in 0..23 /\ time_str[2] \in 0..59 /\ time_str[3] \in 0..59

ParsesHM(date_str, time_str) ==
    /\ ValidDate(date_str)
    /\ Len(time_str) = 2
    /\ time_str[1] \in 0..23 /\ time_str[2] \in 0..59

\* A time that parses in neither format is taken as midnight of the date.
interview_date_DateOnly(date_str, time_str) ==
    IF ParsesHMS(date_str, time_str)
    THEN <<strptime(<<date_str[1], time_str[1], time_str[2], time_str[3]>>)>>
    ELSE IF ParsesHM(date_str, time_str)
    THEN <<strptime(<<date_str[1], time_str[1], time_str[2], 0>>)>>
    ELSE IF ValidDate(date_str)
    THEN <<strptime(<<date_str[1], 0, 0, 0>>)>>
    ELSE None

\* Lines 140-145: the interview time, or None when neither format parses
\* (the second strptime raises ValueError).
interview_date(date_str, time_str) ==
    IF ParsesHMS(date_str, time_str)
    THEN <<strptime(<<date_str[1], time_str[1], time_str[2], time_str[3]>>)>>
    ELSE IF ParsesHM(date_str, time_str)
    THEN <<strptime(<<date_str[1], time_str[1], time_str[2], 0>>)>>
    ELSE None

\* The two timedeltas taken one for the other.
sent_reminders_DeltasSwapped(at) ==
    [k \in Kinds |->
        IF k = "day_before" THEN strftime(at - HourSeconds)
        ELSE IF k = "hour_before" THEN strftime(at - DaySeconds)
        ELSE strftime(at)]

\* Lines 148-157: the sent_reminders dict computed at intake.
sent_reminders(at) ==
    [k \in Kinds |->
        IF k = "day_before" THEN strftime(at - DaySeconds)
        ELSE IF k = "hour_before" THEN strftime(at - HourSeconds)
        ELSE strftime(at)]

\* json.dumps of the dict: the key/value pairs in the dict's order, None
\* written as null.
json_dumps(d) == [i \in 1..Len(ReminderTypes) |-> <<ReminderTypes[i], d[ReminderTypes[i]]>>]

\* Every key is given the value of the first pair.
json_loads_FirstValue(text) ==
    [k \in {text[i][1] : i \in 1..Len(text)} |-> text[1][2]]

\* Is the cell text JSON: key/value pairs?  json.loads (line 220) raises
\* on any other text.
IsJson(text) == \A i \in 1..Len(text) : Len(text[i]) = 2

\* json.loads of the cell text: the dict of its pairs.
json_loads(text) ==
    [k \in {text[i][1] : i \in 1..Len(text)} |->
        LET i == CHOOSE j \in 1..Len(text) : text[j][1] = k IN text[i][2]]

\* Lines 233-234: abs((current_time - scheduled_time).total_seconds())
time_diff(now, scheduled_time) ==
    IF now >= scheduled_time THEN now - scheduled_time ELSE scheduled_time - now

\* The window test written "<", not "<=".
IsDue_Strict(rem, reminder_type, now) ==
    /\ rem[reminder_type] # None
    /\ time_diff(now, strptime(rem[reminder_type])) < WindowSeconds

\* Lines 225-245: is this reminder type due at now?
IsDue(rem, reminder_type, now) ==
    /\ rem[reminder_type] # None
    /\ time_diff(now, strptime(rem[reminder_type])) <= WindowSeconds

\* Lines 224-245: the index of the first due reminder type at or after
\* index from, 0 when there is none.
FirstDue(rem, now, from) ==
    LET due == {i \in from..Len(ReminderTypes) : IsDue(rem, ReminderTypes[i], now)}
    IN  IF due = {} THEN 0 ELSE CHOOSE i \in due : \A j \in due : i <= j

\* Line 259 left out: the loop goes on with the next type.
ResumeAfterDispatch_NoBreak(i) == i + 1

\* Line 259: "break  # Only send one reminder at a time": after a dispatch
\* of the type at index i the loop over the types is left (it resumes
\* past the last type).
ResumeAfterDispatch(i) == Len(ReminderTypes) + 1

\* Every entry of the dict is set to None, not the sent type's alone.
ClearedReminders_All(rem, reminder_type) == [k \in DOMAIN rem |-> None]

\* Line 255 left out: the dict is written back as it was read.
ClearedReminders_Kept(rem, reminder_type) == rem

\* Line 255: reminders[reminder_type] = None
ClearedReminders(rem, reminder_type) == [rem EXCEPT ![reminder_type] = None]

\* The column of "today" as the commented-out text at lines 242 and 345 has it.
reminder_column_HourForToday(reminder_type) ==
    IF reminder_type = "day_before" THEN COLUMN_DAY_BEFORE
    ELSE COLUMN_HOUR_BEFORE

\* Lines 237-242 and 340-345: the outcome column of a reminder type.
reminder_column(reminder_type) ==
    IF reminder_type = "day_before" THEN COLUMN_DAY_BEFORE
    ELSE IF reminder_type = "hour_before" THEN COLUMN_HOUR_BEFORE
    ELSE COLUMN_TODAY

\* The words of a reminder type, split at '_'.
Words(reminder_type) ==
    IF reminder_type = "day_before" THEN <<"day", "before">>
    ELSE IF reminder_type = "hour_before" THEN <<"hour", "before">>
    ELSE <<reminder_type>>

\* Lines 298-299: callback_data = f"confirm_yes_{reminder_type}", as the
\* parts split('_') gives (line 323).
callback_data(response, reminder_type) == <<"confirm", response>> \o Words(reminder_type)

\* Line 328: '_'.join(parts[2:])
JoinWords(ws) ==
    IF \E k \in Kinds : Words(k) = ws
    THEN CHOOSE k \in Kinds : Words(k) = ws
    ELSE "other"

\* Line 348: response_text = "Да" if response == "yes" else "Нет"
response_text(response) == IF response = "yes" THEN Da ELSE Net

(* ------------------------------ state ---------------------------------- *)

VARIABLES
    \* The sheet: the chat id column (15), the date and time columns (4, 5),
    \* the sent_reminders column (16) and the three outcome columns (9-11).
    chatIdCol, dateCol, timeCol, remindersCol, outcomeCol,
    \* The poll job check_reminders: where it stands and its locals.
    pc, current_time, chat_ids, row, reminders, reminder_type,
    \* The wall clock as last read, and the reminder messages (with their two
    \* buttons) delivered to the chats.
    clock, inbox,
    \* History: reminder messages delivered per row and type; the types a send
    \* was started for, per row, in the tick in flight; whether a delivered
    \* reminder's schedule entry was left uncleared (crash or failed write);
    \* whether intake wrote a row's schedule over an earlier one; whether a
    \* send of a row's type has failed.
    sentCount, attempted, lostClear, recomputed, sendFailed,
    \* The ticks, contact messages and button presses so far, and the last
    \* button press whose store calls went through: its chat, reminder type
    \* and answer, and the row sheet.find gave (0: none).
    events, lastResponse

sheetVars == <<chatIdCol, dateCol, timeCol, remindersCol, outcomeCol>>
jobVars == <<pc, current_time, chat_ids, row, reminders, reminder_type>>
histVars == <<sentCount, attempted, lostClear, recomputed, sendFailed>>
vars == <<sheetVars, jobVars, clock, inbox, histVars, events, lastResponse>>

\* The appointment of every row: day 2 at 14:00, as Scenario A's.
ApptDay == 2
ApptHour == 14

ApptTime == ApptDay * DaySeconds + ApptHour * HourSeconds

\* The clock readings a tick can make: around each scheduled instant, at the
\* early edge of the window, one second inside its late edge, and one second
\* outside of it, early and late.
Offsets == {0 - 121, 0 - 120, 119, 121}

Instants == {s + d : s \in {ApptTime - DaySeconds, ApptTime - HourSeconds, ApptTime},
                     d \in Offsets}

NoAttempts == [r \in Rows |-> <<>>]

JobIdle ==
    /\ pc' = "idle"
    /\ current_time' = 0
    /\ chat_ids' = [r \in Rows |-> ""]
    /\ row' = 0
    /\ reminders' = None
    /\ reminder_type' = ""
    /\ attempted' = NoAttempts

\* What the program holds besides the sheet's date, time, chat id and
\* sent_reminders columns when it starts on a sheet no reminder was sent
\* from.
InitJob ==
    /\ outcomeCol = [r \in Rows |-> [c \in OutcomeColumns |-> Unset]]
    /\ pc = "idle"
    /\ current_time = 0
    /\ chat_ids = [r \in Rows |-> ""]
    /\ row = 0
    /\ reminders = None
    /\ reminder_type = ""
    /\ inbox = {}
    /\ sentCount = [r \in Rows |-> [k \in Kinds |-> 0]]
    /\ attempted = NoAttempts
    /\ lostClear = [r \in Rows |-> [k \in Kinds |-> FALSE]]
    /\ recomputed = [r \in Rows |-> FALSE]
    /\ sendFailed = [r \in Rows |-> [k \in Kinds |-> FALSE]]
    /\ lastResponse = None

\* The clock and the count of events at the start of a run.
InitClock ==
    /\ clock = 0
    /\ events = [ticks |-> 0, contacts |-> 0, responses |-> 0]

\* The appointments of Spec and SpecScan: the time of row 1 is written with
\* seconds, that of row 2 without.
InitRest ==
    /\ dateCol = [r \in Rows |-> <<ApptDay>>]
    /\ timeCol = [r \in Rows |-> IF r = 1 THEN <<ApptHour, 0, 0>> ELSE <<ApptHour, 0>>]
    /\ InitJob

\* The sheet as HR prepares it: no chat bound, no schedule.
Init ==
    /\ chatIdCol = [r \in Rows |-> ""]
    /\ remindersCol = [r \in Rows |-> None]
    /\ InitRest
    /\ InitClock

\* The poll job started on a sheet whose chat id and sent_reminders columns
\* hold anything of the right form: each row bound or not, its schedule
\* empty, not JSON, or a dict whose entries are null or the appointment's
\* time.
ScanChats == {"", "101"}

\* A cell text json.loads raises on.
Garbled == << <<"{">> >>

ScanSchedules ==
    {None, Garbled} \cup {json_dumps(d) : d \in [Kinds -> {None, strftime(ApptTime)}]}

InitScan ==
    /\ chatIdCol \in [Rows -> ScanChats]
    /\ remindersCol \in [Rows -> ScanSchedules]
    /\ InitRest
    /\ InitClock

\* The date and time cells HR can have typed: a date, a date with a stray
\* field, no date; a time with seconds, without, one past midnight, an hour
\* alone, an hour out of range, no time.
DateTexts == {<<ApptDay>>, <<ApptDay, 1>>, None}

TimeTexts == {<<ApptHour, 0, 0>>, <<ApptHour, 0>>, <<0, 30, 15>>, <<ApptHour>>, <<24, 0>>, None}

\* No chat bound, no schedule, row 1 as in Init and row 2 with any date and
\* time cell.
InitIntake ==
    /\ chatIdCol = [r \in Rows |-> ""]
    /\ remindersCol = [r \in Rows |-> None]
    /\ dateCol \in {d \in [Rows -> DateTexts] : d[1] = <<ApptDay>>}
    /\ timeCol \in {t \in [Rows -> TimeTexts] : t[1] = <<ApptHour, 0, 0>>}
    /\ InitJob
    /\ InitClock

\* The job started at its fixed cadence on the sheet as HR prepares it,
\* CadenceSpan seconds before the appointment.
InitCadence ==
    /\ chatIdCol = [r \in Rows |-> ""]
    /\ remindersCol = [r \in Rows |-> None]
    /\ InitRest
    /\ clock = ApptTime - CadenceSpan
    /\ events = [ticks |-> 0, contacts |-> 0, responses |-> 0]

\* Handlers run on the event loop: they start only where the poll job is
\* not running or is suspended in "await context.bot.send_message".
LoopFree == pc \in {"idle", "sending"}

(* ------------------------------ intake --------------------------------- *)

\* Lines 103-115: the first row whose phone, normalized, is the contact's;
\* 0 when there is none ("Phone number not found").
FindPhoneRow(normalized_phone) ==
    LET hits == {r \in Rows : PhoneCol[r] # <<>> /\ normalize_phone(PhoneCol[r]) = normalized_phone}
    IN  IF hits = {} THEN 0 ELSE CHOOSE r \in hits : \A q \in hits : r <= q

\* handle_contact (lines 81-199), from the contact to the last write: no
\* await lies between.  fail names the store call that raises, if any: "find"
\* (line 103), "bind" (118), "read" (125-129), "schedule" (160), or "none".
\* A row whose date or time is missing (131) or parses in neither format
\* (143) keeps the chat id just written and gets no schedule.
HandleContact(chat, phone, fail) ==
    /\ LoopFree
    /\ events.contacts < MaxContacts
    /\ events' = [events EXCEPT !.contacts = @ + 1]
    /\ LET r == FindPhoneRow(normalize_phone(phone)) IN
        IF fail \in {"find", "bind"} \/ r = 0
        THEN UNCHANGED <<chatIdCol, remindersCol, recomputed>>
        ELSE /\ chatIdCol' = [chatIdCol EXCEPT ![r] = chat]
             /\ LET at == interview_date(dateCol[r], timeCol[r]) IN
                 IF \/ fail \in {"read", "schedule"}
                    \/ dateCol[r] = None \/ timeCol[r] = None
                    \/ at = None
                 THEN UNCHANGED <<remindersCol, recomputed>>
                 ELSE /\ remindersCol' =
                            [remindersCol EXCEPT ![r] = json_dumps(sent_reminders(at[1]))]
                      /\ recomputed' = [recomputed EXCEPT ![r] = @ \/ remindersCol[r] # None]
    /\ UNCHANGED <<dateCol, timeCol, outcomeCol, jobVars, clock, inbox,
                   sentCount, attempted, lostClear, sendFailed, lastResponse>>

(* ----------------------------- poll job -------------------------------- *)

TypeIndex(k) == CHOOSE i \in 1..Len(ReminderTypes) : ReminderTypes[i] = k

Saturate(n) == IF n < MaxSends THEN n + 1 ELSE MaxSends

\* Line 210 / 263: on to the next row of chat_ids, or the end of the tick.
NextRow(r) ==
    IF r < NumRows
    THEN /\ pc' = "scan"
         /\ row' = r + 1
         /\ reminders' = None
         /\ reminder_type' = ""
         /\ UNCHANGED <<current_time, chat_ids, attempted>>
    ELSE JobIdle

\* Lines 246-247 and 271-305: send_reminder is entered for the type at index
\* i and suspends in "await context.bot.send_message".
StartSend(r, i, rem) ==
    /\ pc' = "sending"
    /\ row' = r
    /\ reminders' = rem
    /\ reminder_type' = ReminderTypes[i]
    /\ attempted' = [attempted EXCEPT ![r] = Append(@, ReminderTypes[i])]
    /\ UNCHANGED <<current_time, chat_ids>>

\* A run is started although the run before it is suspended in its send.
Tick_Overlapping(t, storeOk) ==
    /\ pc \in {"idle", "sending"}
    /\ t >= clock
    /\ events.ticks < MaxTicks
    /\ events' = [events EXCEPT !.ticks = @ + 1]
    /\ clock' = t
    /\ IF storeOk
       THEN /\ pc' = "scan"
            /\ current_time' = t
            /\ chat_ids' = chatIdCol
            /\ row' = 1
            /\ UNCHANGED <<reminders, reminder_type, attempted>>
       ELSE UNCHANGED jobVars /\ UNCHANGED attempted
    /\ UNCHANGED <<sheetVars, inbox, sentCount, lostClear, recomputed, sendFailed,
                   lastResponse>>

\* Lines 203-208: a tick of the job reads the clock and the chat id column.
\* A store failure there ends the tick (line 265).  Line 384: a run starts
\* only when the run before it has returned.
Tick(t, storeOk) ==
    /\ pc = "idle"
    /\ t >= clock
    /\ events.ticks < MaxTicks
    /\ events' = [events EXCEPT !.ticks = @ + 1]
    /\ clock' = t
    /\ IF storeOk
       THEN /\ pc' = "scan"
            /\ current_time' = t
            /\ chat_ids' = chatIdCol
            /\ row' = 1
            /\ UNCHANGED <<reminders, reminder_type, attempted>>
       ELSE UNCHANGED jobVars /\ UNCHANGED attempted
    /\ UNCHANGED <<sheetVars, inbox, sentCount, lostClear, recomputed, sendFailed,
                   lastResponse>>

\* Lines 203-208 and 384: the tick that starts Interval seconds after the
\* one before it, the store working.
CadenceTick ==
    /\ pc = "idle"
    /\ clock + Interval <= ApptTime + CadenceSpan
    /\ clock' = clock + Interval
    /\ pc' = "scan"
    /\ current_time' = clock + Interval
    /\ chat_ids' = chatIdCol
    /\ row' = 1
    /\ UNCHANGED <<reminders, reminder_type, sheetVars, inbox, histVars, events,
                   lastResponse>>

\* Line 384: the interval comes round while the run before it is suspended
\* in its send; the scheduler runs one instance of a job at a time and skips
\* this run.
TickSkipped(t) ==
    /\ pc = "sending"
    /\ t >= clock
    /\ events.ticks < MaxTicks
    /\ events' = [events EXCEPT !.ticks = @ + 1]
    /\ clock' = t
    /\ UNCHANGED <<sheetVars, jobVars, inbox, histVars, lastResponse>>

\* Lines 210-247: one row of the scan, up to the send.  storeOk is false
\* when a read of the row (lines 216, 221, 275, 276) raises: the row is left
\* (line 261), as it is when json.loads raises on the cell.
ProcessRow(storeOk) ==
    /\ pc = "scan"
    /\ IF chat_ids[row] = "" \/ chat_ids[row] = "chat_id"
       THEN NextRow(row)
       ELSE IF ~storeOk \/ remindersCol[row] = None \/ ~IsJson(remindersCol[row])
       THEN NextRow(row)
       ELSE LET rem == json_loads(remindersCol[row])
                i == FirstDue(rem, current_time, 1)
            IN  IF i = 0 THEN NextRow(row) ELSE StartSend(row, i, rem)
    /\ UNCHANGED <<sheetVars, clock, inbox, sentCount, lostClear, recomputed,
                   sendFailed, events, lastResponse>>

\* Lines 305-310: the message is delivered and send_message returns.
SendOk ==
    /\ pc = "sending"
    /\ inbox' = inbox \cup {[chat |-> chat_ids[row], reminder_type |-> reminder_type,
                             row |-> row]}
    /\ sentCount' = [sentCount EXCEPT ![row][reminder_type] = Saturate(@)]
    /\ pc' = "marking"
    /\ UNCHANGED <<sheetVars, current_time, chat_ids, row, reminders, reminder_type,
                   clock, attempted, lostClear, recomputed, sendFailed, events, lastResponse>>

\* send_reminder swallows the error (no "raise" at line 313): the job goes
\* on to mark the reminder as sent.
SendFail_Swallowed ==
    /\ pc = "sending"
    /\ pc' = "marking"
    /\ sendFailed' = [sendFailed EXCEPT ![row][reminder_type] = TRUE]
    /\ UNCHANGED <<sheetVars, current_time, chat_ids, row, reminders, reminder_type,
                   clock, inbox, sentCount, attempted, lostClear, recomputed, events,
                   lastResponse>>

\* The error of the send leaves the loop over the rows: the tick ends.
SendFail_AbortsTick ==
    /\ pc = "sending"
    /\ JobIdle
    /\ sendFailed' = [sendFailed EXCEPT ![row][reminder_type] = TRUE]
    /\ UNCHANGED <<sheetVars, clock, inbox, sentCount, lostClear, recomputed,
                   events, lastResponse>>

\* Lines 311-313, 261-263: send_message raises; send_reminder re-raises and
\* the row is left.
SendFail ==
    /\ pc = "sending"
    /\ NextRow(row)
    /\ sendFailed' = [sendFailed EXCEPT ![row][reminder_type] = TRUE]
    /\ UNCHANGED <<sheetVars, clock, inbox, sentCount, lostClear, recomputed,
                   events, lastResponse>>

\* The row's three outcome cells are written as one range, the other two
\* empty.
WriteOutcome_WholeRow(storeOk) ==
    /\ pc = "marking"
    /\ IF storeOk
       THEN /\ outcomeCol' = [outcomeCol EXCEPT ![row] =
                    [c \in OutcomeColumns |->
                        IF c = reminder_column(reminder_type) THEN Otpravleno ELSE Unset]]
            /\ pc' = "clearing"
            /\ UNCHANGED <<current_time, chat_ids, row, reminders, reminder_type,
                           attempted, lostClear>>
       ELSE /\ NextRow(row)
            /\ lostClear' = [lostClear EXCEPT ![row][reminder_type] = TRUE]
            /\ UNCHANGED outcomeCol
    /\ UNCHANGED <<chatIdCol, dateCol, timeCol, remindersCol, clock, inbox,
                   sentCount, recomputed, sendFailed, events, lastResponse>>

\* The sent marker and the cleared schedule are written in one step.
WriteOutcome_AlsoClears(storeOk) ==
    /\ pc = "marking"
    /\ IF storeOk
       THEN /\ outcomeCol' = [outcomeCol EXCEPT
                                ![row][reminder_column(reminder_type)] = Otpravleno]
            /\ remindersCol' = [remindersCol EXCEPT
                    ![row] = json_dumps(ClearedReminders(reminders, reminder_type))]
            /\ pc' = "clearing"
            /\ UNCHANGED <<current_time, chat_ids, row, reminders, reminder_type,
                           attempted, lostClear>>
       ELSE /\ NextRow(row)
            /\ lostClear' = [lostClear EXCEPT ![row][reminder_type] = TRUE]
            /\ UNCHANGED <<outcomeCol, remindersCol>>
    /\ UNCHANGED <<chatIdCol, dateCol, timeCol, clock, inbox,
                   sentCount, recomputed, sendFailed, events, lastResponse>>

\* Line 250: sheet.update_cell(row, reminder_column, "Отправлено").
WriteOutcome(storeOk) ==
    /\ pc = "marking"
    /\ IF storeOk
       THEN /\ outcomeCol' = [outcomeCol EXCEPT
                                ![row][reminder_column(reminder_type)] = Otpravleno]
            /\ pc' = "clearing"
            /\ UNCHANGED <<current_time, chat_ids, row, reminders, reminder_type,
                           attempted, lostClear>>
       ELSE /\ NextRow(row)
            /\ lostClear' = [lostClear EXCEPT ![row][reminder_type] = TRUE]
            /\ UNCHANGED outcomeCol
    /\ UNCHANGED <<chatIdCol, dateCol, timeCol, remindersCol, clock, inbox,
                   sentCount, recomputed, sendFailed, events, lastResponse>>

\* Lines 255-259: the type's entry of the dict read at line 220 is set to
\* None, the dict is written back, and the loop over the types is left.
WriteSchedule(storeOk) ==
    /\ pc = "clearing"
    /\ IF storeOk
       THEN LET rem == ClearedReminders(reminders, reminder_type)
                i == FirstDue(rem, current_time, ResumeAfterDispatch(TypeIndex(reminder_type)))
            IN  /\ remindersCol' = [remindersCol EXCEPT ![row] = json_dumps(rem)]
                /\ IF i = 0 THEN NextRow(row) ELSE StartSend(row, i, rem)
                /\ UNCHANGED lostClear
       ELSE /\ NextRow(row)
            /\ lostClear' = [lostClear EXCEPT ![row][reminder_type] = TRUE]
            /\ UNCHANGED remindersCol
    /\ UNCHANGED <<chatIdCol, dateCol, timeCol, outcomeCol, clock, inbox,
                   sentCount, recomputed, sendFailed, events, lastResponse>>

\* The process dies while a tick is in flight and is started again: the
\* job's locals are gone, the sheet and the chats keep what they hold.
Crash ==
    /\ pc # "idle"
    /\ JobIdle
    /\ lostClear' = IF pc \in {"marking", "clearing"}
                    THEN [lostClear EXCEPT ![row][reminder_type] = TRUE]
                    ELSE lostClear
    /\ UNCHANGED <<sheetVars, clock, inbox, sentCount, recomputed, sendFailed,
                   events, lastResponse>>

(* ------------------------------ responses ------------------------------ *)

\* A find that falls back to the first row when no cell matches.
find_FirstRowDefault(chat) ==
    LET hits == {r \in Rows : chatIdCol[r] = chat}
    IN  IF hits = {} THEN 1 ELSE CHOOSE r \in hits : \A q \in hits : r <= q

\* Line 333: sheet.find(str(chat_id), in_column=COLUMN_CHAT_ID): the first
\* row whose chat id cell is the text, 0 when there is none.
find(chat) ==
    LET hits == {r \in Rows : chatIdCol[r] = chat}
    IN  IF hits = {} THEN 0 ELSE CHOOSE r \in hits : \A q \in hits : r <= q

\* The answer is stored only over the sent marker.
answered_cell_OnlyOverSent(old, text) == IF old = Otpravleno THEN text ELSE old

\* Line 349: sheet.update_cell(row, column, response_text): the cell's new
\* text, whatever it held.
answered_cell(old, text) == text

\* button_callback (lines 315-365) for a press of a button of message m.
\* storeOk is false when sheet.find or sheet.update_cell raises.
ButtonCallback(m, response, storeOk) ==
    /\ LoopFree
    /\ m \in inbox
    /\ events.responses < MaxResponses
    /\ events' = [events EXCEPT !.responses = @ + 1]
    /\ lastResponse' = IF storeOk
                       THEN [chat |-> m.chat, reminder_type |-> m.reminder_type,
                             response |-> response, found |-> find(m.chat)]
                       ELSE lastResponse
    /\ LET parts == callback_data(response, m.reminder_type)
           answer == parts[2]
           rtype == JoinWords(SubSeq(parts, 3, Len(parts)))
           r == find(m.chat)
       IN  IF Len(parts) < 3 \/ ~storeOk \/ r = 0
           THEN UNCHANGED outcomeCol
           ELSE outcomeCol' = [outcomeCol EXCEPT
                                 ![r][reminder_column(rtype)] =
                                     answered_cell(@, response_text(answer))]
    /\ UNCHANGED <<chatIdCol, dateCol, timeCol, remindersCol, jobVars, clock, inbox,
                   histVars>>

(* --------------------------- specification ----------------------------- *)

Next ==
    \/ \E chat \in Chats, phone \in ContactPhones,
          fail \in {"none", "find", "bind", "read", "schedule"} :
            HandleContact(chat, phone, fail)
    \/ \E t \in Instants, storeOk \in BOOLEAN : Tick(t, storeOk)
    \/ \E t \in Instants : TickSkipped(t)
    \/ \E storeOk \in BOOLEAN : ProcessRow(storeOk)
    \/ SendOk
    \/ SendFail
    \/ \E storeOk \in BOOLEAN : WriteOutcome(storeOk)
    \/ \E storeOk \in BOOLEAN : WriteSchedule(storeOk)
    \/ Crash
    \/ \E m \in inbox, response \in {"yes", "no"}, storeOk \in BOOLEAN :
            ButtonCallback(m, response, storeOk)

Spec == Init /\ [][Next]_vars

\* The poll job alone, on any sheet.
NextScan ==
    \/ \E t \in Instants, storeOk \in BOOLEAN : Tick(t, storeOk)
    \/ \E t \in Instants : TickSkipped(t)
    \/ \E storeOk \in BOOLEAN : ProcessRow(storeOk)
    \/ SendOk
    \/ SendFail
    \/ \E storeOk \in BOOLEAN : WriteOutcome(storeOk)
    \/ \E storeOk \in BOOLEAN : WriteSchedule(storeOk)
    \/ Crash

SpecScan == InitScan /\ [][NextScan]_vars

\* Intake and the poll job, on sheets with any date and time cells.
NextIntake ==
    \/ \E chat \in Chats, phone \in ContactPhones,
          fail \in {"none", "find", "bind", "read", "schedule"} :
            HandleContact(chat, phone, fail)
    \/ \E t \in Instants, storeOk \in BOOLEAN : Tick(t, storeOk)
    \/ \E t \in Instants : TickSkipped(t)
    \/ \E storeOk \in BOOLEAN : ProcessRow(storeOk)
    \/ SendOk
    \/ SendFail
    \/ \E storeOk \in BOOLEAN : WriteOutcome(storeOk)
    \/ \E storeOk \in BOOLEAN : WriteSchedule(storeOk)
    \/ Crash

SpecIntake == InitIntake /\ [][NextIntake]_vars

\* The job at its cadence of 15 seconds with the store working and every
\* send delivered before the next tick is due; contacts come in between.
\* The event loop runs every step that is ready.
NextCadence ==
    \/ \E chat \in Chats, phone \in ContactPhones : HandleContact(chat, phone, "none")
    \/ CadenceTick
    \/ ProcessRow(TRUE)
    \/ SendOk
    \/ WriteOutcome(TRUE)
    \/ WriteSchedule(TRUE)

SpecCadence ==
    /\ InitCadence
    /\ [][NextCadence]_vars
    /\ WF_vars(CadenceTick)
    /\ WF_vars(ProcessRow(TRUE))
    /\ WF_vars(SendOk)
    /\ WF_vars(WriteOutcome(TRUE))
    /\ WF_vars(WriteSchedule(TRUE))

(* ------------------------------- claims -------------------------------- *)

\* What the claims read off the sheet: the schedule entry of a type in a
\* sent_reminders cell (None for an empty cell), the type an outcome column
\* belongs to, and the text an answer is stored as.
EntryOf(cell, k) ==
    IF cell = None THEN None
    ELSE LET i == CHOOSE j \in 1..Len(cell) : cell[j][1] = k IN cell[i][2]

ColumnOf(k) ==
    CASE k = "day_before" -> COLUMN_DAY_BEFORE
      [] k = "hour_before" -> COLUMN_HOUR_BEFORE
      [] k = "today" -> COLUMN_TODAY

AnswerText(response) ==
    CASE response = "yes" -> Da
      [] response = "no" -> Net

\* C1 as stated: every reminder (row, type) is sent at most once, whatever
\* failures and crashes occur.
C1_AtMostOnce ==
    \A r \in Rows, k \in Kinds : sentCount[r][k] <= 1

\* C1, amended: a reminder (row, type) is sent a second time only after a
\* crash or a failed store write left its schedule entry uncleared after a
\* send, or after a repeated intake wrote the row's schedule anew.
C1_AtMostOnceUnlessRearmed ==
    \A r \in Rows, k \in Kinds :
        sentCount[r][k] >= 2 => (lostClear[r][k] \/ recomputed[r])

\* A second send of a reminder after a crash or failed write, with no
\* repeated intake.
C1_Witness ==
    \E r \in Rows, k \in Kinds :
        sentCount[r][k] = 2 /\ lostClear[r][k] /\ ~recomputed[r]

\* The scheduled instant an entry of a sent_reminders cell stands for.
InstantOf(entry) ==
    entry[1] * DaySeconds + entry[2] * HourSeconds + entry[3] * MinuteSeconds + entry[4]

\* Type k of row r is due at now by the sheet: its entry is non-null and
\* at most 120 seconds from now.
DueInSheet(r, k, now) ==
    /\ EntryOf(remindersCol[r], k) # None
    /\ now - InstantOf(EntryOf(remindersCol[r], k)) <= 120
    /\ InstantOf(EntryOf(remindersCol[r], k)) - now <= 120

\* C2: when a tick processes a bound row (its reads going through), a send
\* is started for type k iff k's schedule entry is non-null and within 120
\* seconds of the tick's time; and no send is ever started for a type that
\* is not due by the sheet at the tick's time.
C2_DueWindowRule ==
    [][ /\ \A r \in Rows, k \in Kinds :
             (ProcessRow(TRUE) /\ row = r /\ chat_ids[r] # "")
                => ((pc' = "sending" /\ reminder_type' = k) <=> DueInSheet(r, k, current_time))
        /\ (pc # "sending" /\ pc' = "sending")
                => DueInSheet(row', reminder_type', current_time') ]_vars

\* A send started exactly 120 seconds before the scheduled instant of
\* hour_before.
C2_Witness ==
    /\ pc = "sending"
    /\ reminder_type = "hour_before"
    /\ current_time = ApptTime - HourSeconds - 120

\* Type k is due at now by the dict the job read for the row in process.
DueInDict(d, k, now) ==
    /\ d[k] # None
    /\ now - InstantOf(d[k]) <= 120
    /\ InstantOf(d[k]) - now <= 120

\* C3: within one tick a send is started at most once per row, also after a
\* failed send or store write, and it is for the first type, in the order
\* day_before, hour_before, today, that is due.
C3_OneDispatchPerTick ==
    /\ \A r \in Rows : Len(attempted[r]) <= 1
    /\ pc = "sending" =>
         \A i \in 1..3 :
            DueInDict(reminders, <<"day_before", "hour_before", "today">>[i], current_time)
              => \E j \in 1..i : reminder_type = <<"day_before", "hour_before", "today">>[j]

\* A tick that sent day_before for row 1, cleared its entry and went on to
\* row 2 while hour_before and today of row 1 are due too.
C3_Witness ==
    /\ pc = "scan"
    /\ row = 2
    /\ attempted[1] = <<"day_before">>
    /\ EntryOf(remindersCol[1], "day_before") = None
    /\ DueInSheet(1, "hour_before", current_time)
    /\ DueInSheet(1, "today", current_time)

\* C4 as stated: every change of an outcome cell is unset -> sent,
\* sent -> confirmed or sent -> declined.
C4_ForwardOnly ==
    [][ \A r \in Rows, c \in OutcomeColumns :
            outcomeCol'[r][c] # outcomeCol[r][c] =>
                \/ outcomeCol[r][c] = "" /\ outcomeCol'[r][c] = "Otpravleno"
                \/ outcomeCol[r][c] = "Otpravleno" /\ outcomeCol'[r][c] \in {"Da", "Net"} ]_vars

\* C4, amended: an outcome cell never returns to unset; it becomes sent only
\* by the poll job's write after the send of that row's reminder of that
\* type, and confirmed or declined only by a response to a reminder of that
\* type from the chat sheet.find locates the row by.
C4_OutcomeWriters ==
    [][ \A r \in Rows, k \in Kinds :
            outcomeCol'[r][ColumnOf(k)] # outcomeCol[r][ColumnOf(k)] =>
                \/ /\ outcomeCol'[r][ColumnOf(k)] = "Otpravleno"
                   /\ pc = "marking" /\ row = r /\ reminder_type = k
                   /\ sentCount[r][k] >= 1
                \/ /\ outcomeCol'[r][ColumnOf(k)] \in {"Da", "Net"}
                   /\ pc \in {"idle", "sending"}
                   /\ \E m \in inbox :
                        /\ m.reminder_type = k
                        /\ chatIdCol[r] = m.chat
                        /\ \A q \in 1..(r - 1) : chatIdCol[q] # m.chat ]_vars

\* An answer overwritten by sent: the reminder was sent twice, answered in
\* between, and the job has just written sent again.
C4_Witness ==
    \E r \in Rows, k \in Kinds :
        /\ sentCount[r][k] = 2
        /\ lastResponse # None
        /\ lastResponse.found = r /\ lastResponse.reminder_type = k
        /\ outcomeCol[r][ColumnOf(k)] = "Otpravleno"
        /\ pc = "clearing" /\ row = r /\ reminder_type = k

\* C5 as stated (at rest, between ticks): a schedule entry is non-null iff
\* the row's schedule has been computed and the type has not been sent.
C5_ScheduleIff ==
    pc = "idle" =>
        \A r \in Rows, k \in Kinds :
            EntryOf(remindersCol[r], k) # None
                <=> (remindersCol[r] # None /\ sentCount[r][k] = 0)

\* C5, amended: once a row's schedule is computed, the entry of a type that
\* has not been sent is non-null (an entry is null only after a send of its
\* type); an entry of a sent type may be non-null.
C5_NullOnlyAfterSend ==
    \A r \in Rows, k \in Kinds :
        (remindersCol[r] # None /\ sentCount[r][k] = 0)
            => EntryOf(remindersCol[r], k) # None

\* A row with one type sent and cleared and another type not sent yet.
C5_Witness ==
    \E r \in Rows :
        /\ sentCount[r]["day_before"] = 1
        /\ EntryOf(remindersCol[r], "day_before") = None
        /\ sentCount[r]["hour_before"] = 0
        /\ EntryOf(remindersCol[r], "hour_before") # None

\* C6 as stated: once a row's schedule is computed, no step sets an entry
\* that is null to a timestamp again.
C6_NeverRecomputed ==
    [][ \A r \in Rows, k \in Kinds :
            (remindersCol[r] # None /\ EntryOf(remindersCol[r], k) = None)
                => EntryOf(remindersCol'[r], k) = None ]_vars

\* C7: a send that fails writes nothing: while a reminder's send has only
\* failed, its outcome cell is not sent and its schedule entry is non-null;
\* the step by which a send ends without the message delivered leaves the
\* outcome and schedule cells as they are; and a tick that then processes
\* the row while the type is within its window starts the send again.
C7_FailedSendRetried ==
    /\ [](\A r \in Rows, k \in Kinds :
            (sendFailed[r][k] /\ sentCount[r][k] = 0) =>
                /\ outcomeCol[r][ColumnOf(k)] # "Otpravleno"
                /\ EntryOf(remindersCol[r], k) # None)
    /\ [][ (pc = "sending" /\ pc' \notin {"sending", "marking"}) =>
              (outcomeCol' = outcomeCol /\ remindersCol' = remindersCol) ]_vars
    /\ [][ \A r \in Rows, k \in Kinds :
              (/\ ProcessRow(TRUE) /\ row = r /\ chat_ids[r] # ""
               /\ sendFailed[r][k]
               /\ EntryOf(remindersCol[r], k) # None
               /\ current_time - InstantOf(EntryOf(remindersCol[r], k)) <= 120
               /\ InstantOf(EntryOf(remindersCol[r], k)) - current_time <= 120)
                 => (pc' = "sending" /\ reminder_type' = k) ]_vars

\* A later tick sends day_before of row 1 again, 119 seconds late, after an
\* earlier send of it failed and nothing was delivered or written.
C7_Witness ==
    /\ sendFailed[1]["day_before"]
    /\ sentCount[1]["day_before"] = 0
    /\ attempted[1] = <<"day_before">>
    /\ events.ticks = 2
    /\ pc = "sending" /\ row = 1 /\ reminder_type = "day_before"
    /\ current_time = ApptTime - DaySeconds + 119
    /\ outcomeCol[1][COLUMN_DAY_BEFORE] = ""

\* The first row bound to a chat, 0 when there is none.
FirstRowOf(chat) ==
    IF \E r \in Rows : chatIdCol[r] = chat
    THEN CHOOSE r \in Rows : chatIdCol[r] = chat /\ \A q \in 1..(r - 1) : chatIdCol[q] # chat
    ELSE 0

\* C8: a response event for type k whose chat is bound and whose store calls
\* go through leaves the outcome cell of k, in the row located by the chat,
\* holding the event's answer, whatever the cell held before; handled again,
\* the same event changes no outcome cell.
C8_LastWriteWins ==
    [][ \A m \in inbox, response \in {"yes", "no"} :
          (ButtonCallback(m, response, TRUE) /\ FirstRowOf(m.chat) # 0) =>
             /\ outcomeCol'[FirstRowOf(m.chat)][ColumnOf(m.reminder_type)]
                    = AnswerText(response)
             /\ outcomeCol[FirstRowOf(m.chat)][ColumnOf(m.reminder_type)]
                    = AnswerText(response) => outcomeCol' = outcomeCol ]_vars

\* Two responses to the one reminder delivered, the reminder's outcome
\* never marked sent (the job crashed after the send): the cell holds the
\* last answer.
C8_Witness ==
    \E m \in inbox :
        /\ inbox = {m}
        /\ events.responses = 2
        /\ lastResponse # None
        /\ lastResponse.found = m.row /\ lastResponse.response = "no"
        /\ lostClear[m.row][m.reminder_type]
        /\ sentCount[m.row][m.reminder_type] = 1
        /\ pc = "idle" /\ events.ticks = 1
        /\ outcomeCol[m.row][ColumnOf(m.reminder_type)] = "Net"

\* C9: a response event from a chat that no row is bound to changes no cell
\* of the sheet and leaves the poll job as it is.
C9_UnknownRecipient ==
    [][ \A m \in inbox, response \in {"yes", "no"}, storeOk \in BOOLEAN :
          (ButtonCallback(m, response, storeOk) /\ \A r \in Rows : chatIdCol[r] # m.chat)
             => (UNCHANGED sheetVars /\ UNCHANGED jobVars) ]_vars

\* A response was handled whose chat sheet.find did not locate.
C9_Witness ==
    /\ lastResponse # None
    /\ lastResponse.found = 0
    /\ \A r \in Rows : chatIdCol[r] # lastResponse.chat

\* C10 as stated: a response to the reminder sent for row r and type k, its
\* chat bound, sets the outcome cell of k in row r to the answer and changes
\* no other outcome cell.
C10_CorrectRecord ==
    [][ \A m \in inbox, response \in {"yes", "no"} :
          (ButtonCallback(m, response, TRUE) /\ \E r \in Rows : chatIdCol[r] = m.chat)
             => outcomeCol' = [outcomeCol EXCEPT
                                 ![m.row][ColumnOf(m.reminder_type)] = AnswerText(response)] ]_vars

\* The appointment of a row as its date and time cells state it: both
\* present, the date one number, the time hours and minutes or hours, minutes
\* and seconds in range.
ValidAppointment(r) ==
    /\ dateCol[r] # <<>> /\ timeCol[r] # <<>>
    /\ Len(dateCol[r]) = 1
    /\ Len(timeCol[r]) \in {2, 3}
    /\ timeCol[r][1] <= 23
    /\ \A i \in 2..Len(timeCol[r]) : timeCol[r][i] <= 59

AppointmentAt(r) ==
    dateCol[r][1] * 86400 + timeCol[r][1] * 3600 + timeCol[r][2] * 60
        + (IF Len(timeCol[r]) = 3 THEN timeCol[r][3] ELSE 0)

\* The schedule cell of row r holds exactly the three instants of its
\* appointment.
ScheduleOf(cell, r) ==
    /\ cell # None
    /\ \A k \in Kinds : EntryOf(cell, k) # None
    /\ InstantOf(EntryOf(cell, "day_before")) = AppointmentAt(r) - 86400
    /\ InstantOf(EntryOf(cell, "hour_before")) = AppointmentAt(r) - 3600
    /\ InstantOf(EntryOf(cell, "today")) = AppointmentAt(r)

\* C11: an intake whose store calls go through, for a row with a valid
\* appointment, persists day_before = appointment - 24h, hour_before =
\* appointment - 1h, today = appointment, all three non-null, whatever the
\* time is; and intake writes no other schedule.
C11_ScheduleExact ==
    [][ /\ \A chat \in Chats, r \in Rows :
             (HandleContact(chat, <<RowDigit(r), "0">>, "none") /\ ValidAppointment(r))
                => ScheduleOf(remindersCol'[r], r)
        /\ \A r \in Rows :
             (events'.contacts # events.contacts /\ remindersCol'[r] # remindersCol[r])
                => (ValidAppointment(r) /\ ScheduleOf(remindersCol'[r], r)) ]_vars

\* Row 2, its appointment at 00:30:15, was bound while the tick of 13:58 was
\* suspended in the send for row 1: its three entries lie in the past and
\* are all set, the hour_before one on the day before.
C11_Witness ==
    /\ pc = "sending" /\ row = 1
    /\ current_time = ApptTime - 120
    /\ chat_ids[2] = "" /\ chatIdCol[2] # ""
    /\ timeCol[2] = <<0, 30, 15>>
    /\ remindersCol[2] # None
    /\ EntryOf(remindersCol[2], "hour_before") = <<ApptDay - 1, 23, 30, 15>>
    /\ EntryOf(remindersCol[2], "day_before") = <<ApptDay - 1, 0, 30, 15>>
    /\ EntryOf(remindersCol[2], "today") = <<ApptDay, 0, 30, 15>>

\* The mappings of the round trip: each type to null or to a timestamp.
RoundTripDicts ==
    [Kinds -> {None, <<ApptDay, ApptHour - 1, 0, 0>>, <<ApptDay - 1, 23, 59, 59>>}]

C13_NoStateMutated ==
    [][ (WriteSchedule(FALSE) /\ sentCount[row][reminder_type] = 1)
            => outcomeCol'[row][ColumnOf(reminder_type)] # "Otpravleno" ]_vars

\* A step of the poll job in which the processing of the row fails: a
\* store read or json.loads raises, the send raises, or a store write
\* raises.
RowFails ==
    \/ ProcessRow(FALSE) /\ chat_ids[row] # ""
    \/ ProcessRow(TRUE) /\ chat_ids[row] # "" /\ remindersCol[row] = << <<"{">> >>
    \/ pc = "sending" /\ pc' \notin {"sending", "marking"} /\ sendFailed' # sendFailed
    \/ WriteOutcome(FALSE)
    \/ WriteSchedule(FALSE)

\* C14: a failure while a row is processed sends the scan on to the next
\* row of the same tick (same time, same chat id snapshot), and every bound
\* row the scan comes to whose cell reads as a schedule with a due type gets
\* its send started.
C14_RowIsolation ==
    [][ /\ (RowFails /\ row < NumRows) =>
              /\ pc' = "scan" /\ row' = row + 1
              /\ chat_ids' = chat_ids /\ current_time' = current_time
        /\ (/\ ProcessRow(TRUE) /\ chat_ids[row] # ""
            /\ remindersCol[row] \notin {<<>>, << <<"{">> >>}
            /\ \E k \in Kinds : DueInSheet(row, k, current_time))
              => (pc' = "sending" /\ row' = row) ]_vars

\* The send for row 1 failed and, in the same tick, the send for row 2 is
\* under way.
C14_Witness ==
    /\ pc = "sending" /\ row = 2
    /\ attempted[1] = <<"day_before">>
    /\ sendFailed[1]["day_before"] /\ sentCount[1]["day_before"] = 0
    /\ attempted[2] # <<>>

\* The date and time cells of a row are there and parse in neither format.
Malformed(r) ==
    /\ dateCol[r] # <<>> /\ timeCol[r] # <<>>
    /\ ~ValidAppointment(r)

\* C15: a row whose date and time parse in neither format never has a
\* schedule, and no send is ever started or delivered for it, bound or not.
C15_MalformedNeverScheduled ==
    \A r \in Rows :
        Malformed(r) =>
            /\ remindersCol[r] = <<>>
            /\ attempted[r] = <<>>
            /\ \A k \in Kinds : sentCount[r][k] = 0
            /\ pc \in {"sending", "marking", "clearing"} => row # r

\* The scan of a tick stands at row 2, bound by an intake that found its
\* time, hour 24, to parse in neither format.
C15_Witness ==
    /\ pc = "scan" /\ row = 2
    /\ chat_ids[2] # "" /\ chatIdCol[2] # ""
    /\ dateCol[2] = <<ApptDay>> /\ timeCol[2] = <<24, 0>>
    /\ remindersCol[2] = <<>>

\* C16: the poll job sends, then writes the outcome, then writes the
\* schedule, each write a step of its own: the delivery changes no cell; the
\* outcome is written only after a delivery and leaves the schedule alone;
\* the schedule is written by the job only once the outcome is "sent".  A
\* crash changes no cell, so the entry of a type sent and not yet cleared is
\* still set, and a later tick that processes the row inside the window
\* starts the send of that type again.
C16_SendMarkClear ==
    /\ [](pc \in {"marking", "clearing"} =>
            /\ sentCount[row][reminder_type] >= 1
            /\ EntryOf(remindersCol[row], reminder_type) # None)
    /\ [][ /\ (pc = "sending" /\ pc' = "marking") => UNCHANGED sheetVars
           /\ (pc = "marking" /\ outcomeCol' # outcomeCol) =>
                 (remindersCol' = remindersCol /\ pc' = "clearing")
           /\ (events'.contacts = events.contacts /\ remindersCol' # remindersCol) =>
                 /\ pc = "clearing"
                 /\ outcomeCol[row][ColumnOf(reminder_type)] = "Otpravleno"
                 /\ outcomeCol' = outcomeCol
           /\ Crash => (UNCHANGED sheetVars /\ pc' = "idle") ]_vars
    /\ [][ \A r \in Rows, k \in Kinds :
             (/\ ProcessRow(TRUE) /\ row = r /\ chat_ids[r] # ""
              /\ lostClear[r][k]
              /\ DueInSheet(r, k, current_time))
                => (pc' = "sending" /\ row' = r /\ reminder_type' = k) ]_vars

\* The first dispatch of day_before for row 1 wrote "sent" and lost its
\* schedule write; the second tick, 119 seconds after the scheduled
\* instant, has started the send again.
C16_Witness ==
    /\ pc = "sending" /\ row = 1 /\ reminder_type = "day_before"
    /\ current_time = ApptTime - DaySeconds + 119
    /\ sentCount[1]["day_before"] = 1
    /\ lostClear[1]["day_before"] /\ ~recomputed[1]
    /\ ~sendFailed[1]["day_before"]
    /\ outcomeCol[1][COLUMN_DAY_BEFORE] = "Otpravleno"

\* The one response handled so far was for type k1 and was written to row
\* r, every reminder delivered is row r's, k1 was delivered once, and the
\* one dispatch of another type k2 for row r is through, with no write lost
\* and no intake since.
AnsweredAndDispatched(r, k1, k2) ==
    /\ events.responses = 1 /\ lastResponse # <<>>
    /\ lastResponse.found = r /\ lastResponse.reminder_type = k1
    /\ \A m \in inbox : m.row = r
    /\ sentCount[r][k1] = 1
    /\ k2 # k1 /\ sentCount[r][k2] = 1
    /\ ~(row = r /\ reminder_type = k2 /\ pc \in {"marking", "clearing"})
    /\ ~lostClear[r][k2] /\ ~recomputed[r]

\* C17: the response handler writes the one outcome cell of its type in the
\* row it finds and no schedule; the poll job's outcome write changes the one
\* cell of the dispatched type and its schedule write no outcome cell;
\* whichever way a response for k1 and a dispatch of k2 for the same row
\* fall, afterwards k1's outcome is the answer, k2's is "sent" and k2's
\* schedule entry is null.
C17_ResponseAndDispatch ==
    /\ [](\A r \in Rows, k1 \in Kinds, k2 \in Kinds :
            AnsweredAndDispatched(r, k1, k2) =>
                /\ outcomeCol[r][ColumnOf(k1)] = AnswerText(lastResponse.response)
                /\ outcomeCol[r][ColumnOf(k2)] = "Otpravleno"
                /\ EntryOf(remindersCol[r], k2) = <<>>)
    /\ [][ \A m \in inbox, response \in {"yes", "no"} :
             (ButtonCallback(m, response, TRUE) /\ FirstRowOf(m.chat) # 0) =>
                /\ remindersCol' = remindersCol
                /\ \A r \in Rows, k \in Kinds :
                      (r # FirstRowOf(m.chat) \/ k # m.reminder_type)
                         => outcomeCol'[r][ColumnOf(k)] = outcomeCol[r][ColumnOf(k)] ]_vars
    /\ [][ /\ WriteOutcome(TRUE) =>
                \A r \in Rows, k \in Kinds :
                    outcomeCol'[r][ColumnOf(k)] =
                        IF r = row /\ k = reminder_type THEN "Otpravleno"
                        ELSE outcomeCol[r][ColumnOf(k)]
           /\ WriteSchedule(TRUE) =>
                /\ outcomeCol' = outcomeCol
                /\ EntryOf(remindersCol'[row], reminder_type) = <<>> ]_vars

\* Row 1 answered no to its day_before reminder and its hour_before
\* dispatch is through.
C17_Witness ==
    /\ AnsweredAndDispatched(1, "day_before", "hour_before")
    /\ lastResponse.response = "no"
    /\ events.ticks = 2 /\ pc = "idle"
    /\ outcomeCol[1][COLUMN_DAY_BEFORE] = "Net"
    /\ outcomeCol[1][COLUMN_HOUR_BEFORE] = "Otpravleno"

PersistedInTime(r, k, late) ==
    /\ chatIdCol[r] # ""
    /\ EntryOf(remindersCol[r], k) # <<>>
    /\ clock - InstantOf(EntryOf(remindersCol[r], k)) <= late

C20_DispatchFrame ==
    [][ WriteSchedule(TRUE) =>
            /\ \A j \in Kinds \ {reminder_type} :
                  EntryOf(remindersCol'[row], j) = EntryOf(remindersCol[row], j)
            /\ \A r \in Rows \ {row} : remindersCol'[r] = remindersCol[r]
            /\ outcomeCol' = outcomeCol ]_vars

====
